---- MODULE Spec2Model ----
(***************************************************************************)
(* ProtoNNTrainer (tf/edgeml/trainer/protoNNTrainer.py).                   *)
(*                                                                         *)
(* Three parts of the class are modelled:                                  *)
(*   - the batching done at the head of train (np.ceil + np.array_split),  *)
(*     as operators, exercised by SplitSpec;                               *)
(*   - the constructor (__init__ / __validateInit and the graph builders), *)
(*     as a step machine, exercised by CtorSpec;                           *)
(*   - train, as a step machine over the session, exercised by Spec (one   *)
(*     call, wide inputs) and CallsSpec (consecutive calls on one session). *)
(*                                                                         *)
(* An array is represented by its shape (a sequence of dimension sizes),   *)
(* its rows by their indices 1..shape[1].  Values computed by the          *)
(* execution engine (loss, accuracy) are opaque and not represented; each  *)
(* sess.run either returns or raises.                                      *)
(***************************************************************************)
EXTENDS Integers, Sequences, FiniteSets, TLC

VARIABLES
    \* batching (SplitSpec)
    splitArgs, splitRes,
    \* constructor (CtorSpec)
    ctorArgs, cpc, cerr, validInit, graph,
    \* train (Spec, CallsSpec)
    args, pc, err, epoch, i, j,
    x_train_batches, y_train_batches, x_val_batches, y_val_batches,
    feed_dict, trace, params, entryParams, calls

splitVars == <<splitArgs, splitRes>>
ctorVars == <<ctorArgs, cpc, cerr, validInit, graph>>
trainVars == <<args, pc, err, epoch, i, j, x_train_batches, y_train_batches,
               x_val_batches, y_val_batches, feed_dict, trace, params,
               entryParams, calls>>
vars == <<splitVars, ctorVars, trainVars>>

----------------------------------------------------------------------------
(* Bounds of the model. *)

MaxRows == 10
MaxBatch == 4

(* Hyper-parameters of the ProtoNN object: feature dimension and number of *)
(* labels, as returned by getHyperParams().                                *)
d == 2
L == 3

None == "None"

----------------------------------------------------------------------------
(* Batching: lines 117-122 of train.                                       *)

(* int(np.ceil(n / batchSize)) for a row count n >= 0 and batchSize >= 1.  *)
NumBatchesFloor(n, batchSize) == n \div batchSize
NumBatches(n, batchSize) ==
    IF n % batchSize = 0 THEN n \div batchSize ELSE (n \div batchSize) + 1

(* numpy.array_split: Neach, extras = divmod(Ntotal, Nsections); the first *)
(* `extras` sections hold Neach+1 rows and the others Neach rows.          *)
(* SectionStart is the offset (0-based) at which section s (1-based)       *)
(* begins, i.e. the cumulative sum of the sizes before it.                 *)
SectionSize(n, sections, s) ==
    IF s <= n % sections THEN (n \div sections) + 1 ELSE n \div sections

SectionStartOverlap(n, sections, s) ==
    IF s = 1 THEN 0
    ELSE IF s - 1 <= n % sections
         THEN (s - 1) * ((n \div sections) + 1) - 1
         ELSE (n % sections) * ((n \div sections) + 1)
              + (s - 1 - (n % sections)) * (n \div sections) - 1
SectionStart(n, sections, s) ==
    IF s - 1 <= n % sections
    THEN (s - 1) * ((n \div sections) + 1)
    ELSE (n % sections) * ((n \div sections) + 1)
         + (s - 1 - (n % sections)) * (n \div sections)

Rows(n) == [k \in 1..n |-> k]

ArraySplit(n, sections) ==
    [s \in 1..sections |->
        SubSeq(Rows(n), SectionStart(n, sections, s) + 1,
               IF SectionStart(n, sections, s) + SectionSize(n, sections, s) > n
               THEN n
               ELSE SectionStart(n, sections, s) + SectionSize(n, sections, s))]

(* Lines 117, 119, 120 (and 118, 121, 122 for the validation pair): the    *)
(* number of sections is computed from the x array alone; array_split      *)
(* raises ValueError when it is not positive.                              *)
Partition(nx, ny, batchSize) ==
    IF NumBatches(nx, batchSize) <= 0
    THEN [status |-> "ValueError", xb |-> <<>>, yb |-> <<>>]
    ELSE [status |-> "ok",
          xb |-> ArraySplit(nx, NumBatches(nx, batchSize)),
          yb |-> ArraySplit(ny, NumBatches(nx, batchSize))]

NoSplit == [status |-> "pending", xb |-> <<>>, yb |-> <<>>]

----------------------------------------------------------------------------
(* Constructor: __init__ (lines 6-37) and __validateInit (lines 43-63).    *)

MaxRank == 3

(* Sparsity values are reals; they are represented in tenths, One being    *)
(* the real 1.0 of the range checks of lines 47-49.                        *)
One == 10
SparsityValues == {-1, 0, 5, One, One + 1}
LossTypes == {"l2", "xentropy", "hinge", "L2"}

Dims == {d, L}
Tails == UNION {[1..r -> Dims] : r \in 0..(MaxRank - 1)}
(* Placeholders: the leading (batch) dimension is unknown, written -1.     *)
PlaceholderShapes == {<<-1>> \o t : t \in Tails}

SparcityMsg == "Sparcity value should be between 0 and 1 (both inclusive)."
YMsg == "Y should be of dimension [-1, num labels/classes] specified as part of ProtoNN object."
XMsg == "X should be of dimension [-1, featureDimension] specified as part of ProtoNN object."
LossMsg == "Values can be 'l2', or 'xentropy'"

NoError == [kind |-> None, msg |-> <<>>]
AssertionError(m) == [kind |-> "AssertionError", msg |-> m]
ValueError(m) == [kind |-> "ValueError", msg |-> m]

(* s >= 0. and s <= 1. *)
SparsityOKStrict(s) == s > 0 /\ s < One
SparsityOK(s) == s >= 0 /\ s <= One

(* len(shape) == 2, then shape[1] == dim (0-based index 1).                *)
ShapeOKNoRank(shape, dim) == Len(shape) >= 2 /\ shape[2] = dim
ShapeOK(shape, dim) == Len(shape) = 2 /\ shape[2] = dim

(* The outcome of __validateInit on arguments a: the exception raised, or  *)
(* NoError.  The checks run in the order of lines 47-62.                   *)
ValidateInitNoLossCheck(a) ==
    IF ~SparsityOK(a.sW) THEN AssertionError(<<"W:", SparcityMsg>>)
    ELSE IF ~SparsityOK(a.sB) THEN AssertionError(<<"B:", SparcityMsg>>)
    ELSE IF ~SparsityOK(a.sZ) THEN AssertionError(<<"Z:", SparcityMsg>>)
    ELSE IF ~ShapeOK(a.Y, L) THEN AssertionError(<<YMsg>>)
    ELSE IF ~ShapeOK(a.X, d) THEN AssertionError(<<XMsg>>)
    ELSE NoError
ValidateInit(a) ==
    IF ~SparsityOK(a.sW) THEN AssertionError(<<"W:", SparcityMsg>>)
    ELSE IF ~SparsityOK(a.sB) THEN AssertionError(<<"B:", SparcityMsg>>)
    ELSE IF ~SparsityOK(a.sZ) THEN AssertionError(<<"Z:", SparcityMsg>>)
    ELSE IF ~ShapeOK(a.Y, L) THEN AssertionError(<<YMsg>>)
    ELSE IF ~ShapeOK(a.X, d) THEN AssertionError(<<XMsg>>)
    ELSE IF a.lossType \notin {"l2", "xentropy"} THEN ValueError(<<LossMsg>>)
    ELSE NoError

(* self.__validInit: False on entry (line 44), True once the assertions    *)
(* have passed (line 59), which is before the loss kind is looked at.      *)
ValidInitAfter(a) ==
    /\ SparsityOK(a.sW) /\ SparsityOK(a.sB) /\ SparsityOK(a.sZ)
    /\ ShapeOK(a.Y, L) /\ ShapeOK(a.X, d)

(* Lines 21-33: store the arguments and validate them. *)
CtorValidate ==
    /\ cpc = "new"
    /\ validInit' = ValidInitAfter(ctorArgs)
    /\ cerr' = ValidateInit(ctorArgs)
    /\ cpc' = IF ValidateInit(ctorArgs) = NoError THEN "validated" ELSE "raised"
    /\ UNCHANGED <<ctorArgs, graph, splitVars, trainVars>>

(* Line 34: self.__protoNNOut = protoNNObj(X, Y). *)
CtorProtoNNOut ==
    /\ cpc = "validated"
    /\ graph' = Append(graph, "protoNNOut")
    /\ cpc' = "protoNNOut"
    /\ UNCHANGED <<ctorArgs, cerr, validInit, splitVars, trainVars>>

(* Line 35 and __lossGraph (lines 65-84): the loss is built under the name *)
(* scope of the loss kind; with any other kind `loss` is unbound at the    *)
(* return of line 84.                                                      *)
CtorLossGraph ==
    /\ cpc = "protoNNOut"
    /\ IF ctorArgs.lossType = "l2"
       THEN /\ graph' = Append(graph, "protonn-l2-loss")
            /\ cpc' = "loss"
            /\ cerr' = cerr
       ELSE IF ctorArgs.lossType = "xentropy"
       THEN /\ graph' = Append(graph, "protonn-xentropy-loss")
            /\ cpc' = "loss"
            /\ cerr' = cerr
       ELSE /\ graph' = graph
            /\ cpc' = "raised"
            /\ cerr' = [kind |-> "UnboundLocalError", msg |-> <<"loss">>]
    /\ UNCHANGED <<ctorArgs, validInit, splitVars, trainVars>>

(* Line 36 and __trainGraph (lines 86-90). *)
CtorTrainGraph ==
    /\ cpc = "loss"
    /\ graph' = Append(graph, "protonn-gradient-adam")
    /\ cpc' = "trainStep"
    /\ UNCHANGED <<ctorArgs, cerr, validInit, splitVars, trainVars>>

(* Line 37: self.accuracy = protoNNObj.getAccuracyOp(). *)
CtorAccuracy ==
    /\ cpc = "trainStep"
    /\ graph' = Append(graph, "accuracy")
    /\ cpc' = "constructed"
    /\ UNCHANGED <<ctorArgs, cerr, validInit, splitVars, trainVars>>

----------------------------------------------------------------------------
(* train (lines 92-157).                                                   *)

MaxBatchSize == 2
MaxEpochs == 7
MaxTrain == 3
MaxVal == 2
MaxPrintStep == 2

ArrayShapes(n) == {<<n>> \o t : t \in Tails}

(* ary.ndim and len(ary) of an array given by its shape. *)
Ndim(shape) == Len(shape)
PyLen(shape) == shape[1]

EngineError(op) == [kind |-> "EngineError", msg |-> <<op>>]
ZeroDivisionError == [kind |-> "ZeroDivisionError", msg |-> <<"integer division or modulo by zero">>]

(* Lines 102-115: the assertions, then the session check, in order.        *)
TrainPreconditionNoEpochCheck(a) ==
    IF ~(a.batchSize >= 1)
        THEN AssertionError(<<"Batch size should be positive integer">>)
    ELSE IF ~(Ndim(a.x_train) = 2)
        THEN AssertionError(<<"Expected training data to be of rank 2">>)
    ELSE IF ~(a.x_train[2] = d)
        THEN AssertionError(<<"Expected x_train to be [-1, %d]">>)
    ELSE IF ~(Ndim(a.x_val) = 2)
        THEN AssertionError(<<"Expected validation data to be of rank 2">>)
    ELSE IF ~(a.x_val[2] = d)
        THEN AssertionError(<<"Expected x_val to be [-1, %d]">>)
    ELSE IF ~(Ndim(a.y_train) = 2)
        THEN AssertionError(<<"Expected training labels to be of rank 2">>)
    ELSE IF ~(a.y_train[2] = L)
        THEN AssertionError(<<"Expected y_train to be [-1, %d]">>)
    ELSE IF ~(Ndim(a.y_val) = 2)
        THEN AssertionError(<<"Expected valing labels to be of rank 2">>)
    ELSE IF ~(a.y_val[2] = L)
        THEN AssertionError(<<"Expected y_val to be [-1, %d]">>)
    ELSE IF a.sess = None
        THEN ValueError(<<"sess must be valid tensorflow session.">>)
    ELSE NoError
TrainPrecondition(a) ==
    IF ~(a.batchSize >= 1)
        THEN AssertionError(<<"Batch size should be positive integer">>)
    ELSE IF ~(a.totalEpochs >= 1)
        THEN AssertionError(<<"Total epochs should be psotive integer">>)
    ELSE IF ~(Ndim(a.x_train) = 2)
        THEN AssertionError(<<"Expected training data to be of rank 2">>)
    ELSE IF ~(a.x_train[2] = d)
        THEN AssertionError(<<"Expected x_train to be [-1, %d]">>)
    ELSE IF ~(Ndim(a.x_val) = 2)
        THEN AssertionError(<<"Expected validation data to be of rank 2">>)
    ELSE IF ~(a.x_val[2] = d)
        THEN AssertionError(<<"Expected x_val to be [-1, %d]">>)
    ELSE IF ~(Ndim(a.y_train) = 2)
        THEN AssertionError(<<"Expected training labels to be of rank 2">>)
    ELSE IF ~(a.y_train[2] = L)
        THEN AssertionError(<<"Expected y_train to be [-1, %d]">>)
    ELSE IF ~(Ndim(a.y_val) = 2)
        THEN AssertionError(<<"Expected valing labels to be of rank 2">>)
    ELSE IF ~(a.y_val[2] = L)
        THEN AssertionError(<<"Expected y_val to be [-1, %d]">>)
    ELSE IF a.sess = None
        THEN ValueError(<<"sess must be valid tensorflow session.">>)
    ELSE NoError

(* Python's a % b for b # 0: the result has the sign of the divisor.       *)
PyMod(a, b) == IF b > 0 THEN a % b ELSE -((-a) % (-b))

(* Line 123: `if not noInit'. *)
ShouldInitAlways(a) == TRUE
ShouldInit(a) == ~a.noInit

(* Line 135: `if i % printStep == 0', for printStep # 0. *)
ShouldPrintOffByOne(batch, printStep) == PyMod(batch + 1, printStep) = 0
ShouldPrint(batch, printStep) == PyMod(batch, printStep) = 0

(* Line 141: `if (epoch + 1) % 3 == 0'. *)
ShouldValidateZeroBased(e) == e % 3 = 0
ShouldValidate(e) == (e + 1) % 3 = 0

(* Line 140: print(msg, file=redirFile); file=None is sys.stdout.          *)
(* Line 157: print(...) with no file argument.                             *)
ProgressSink(a) == IF a.redirFile = None THEN "stdout" ELSE a.redirFile
SummarySink(a) == "stdout"

NoFeed == [X |-> <<>>, Y |-> <<>>]
Event(ev, sink, e, b, f) ==
    [ev |-> ev, sink |-> sink, epoch |-> e, batch |-> b, feed |-> f]

(* The inputs of a call on which the loop is exercised: well-formed arrays *)
(* of every length up to the bounds (the x and y arrays of a pair have the *)
(* same number of rows), a session, every flag.                            *)
LoopInputs ==
    {[batchSize |-> b, totalEpochs |-> e, sess |-> "sess",
      x_train |-> <<nt, d>>, y_train |-> <<nt, L>>,
      x_val |-> <<nv, d>>, y_val |-> <<nv, L>>,
      noInit |-> ni, redirFile |-> rf, printStep |-> ps] :
        b \in 1..MaxBatchSize, e \in 1..MaxEpochs, nt \in 0..MaxTrain,
        nv \in 0..MaxVal, ni \in BOOLEAN, rf \in {None, "log.txt"},
        ps \in {-2} \cup 0..MaxPrintStep}

(* The inputs on which the entry checks are exercised: batch sizes and     *)
(* epoch counts around the limit, with and without a session, and every    *)
(* shape of the two x arrays (the y arrays well-formed) or of the two y    *)
(* arrays (the x arrays well-formed).                                      *)
PreInputs ==
    {[batchSize |-> b, totalEpochs |-> e, sess |-> s,
      x_train |-> xt, y_train |-> <<1, L>>, x_val |-> xv, y_val |-> <<1, L>>,
      noInit |-> FALSE, redirFile |-> None, printStep |-> 1] :
        b \in 0..1, e \in 0..1, s \in {"sess", None},
        xt \in ArrayShapes(1), xv \in ArrayShapes(1)}
    \cup
    {[batchSize |-> b, totalEpochs |-> e, sess |-> s,
      x_train |-> <<1, d>>, y_train |-> yt, x_val |-> <<1, d>>, y_val |-> yv,
      noInit |-> FALSE, redirFile |-> None, printStep |-> 1] :
        b \in 0..1, e \in 0..1, s \in {"sess", None},
        yt \in ArrayShapes(1), yv \in ArrayShapes(1)}

NoArgs == [batchSize |-> 0, totalEpochs |-> 0, sess |-> None,
           x_train |-> <<0>>, y_train |-> <<0>>, x_val |-> <<0>>, y_val |-> <<0>>,
           noInit |-> FALSE, redirFile |-> None, printStep |-> 0]

----------------------------------------------------------------------------
(* The steps of train.  pc is the position in the body:                    *)
(*   "idle"     before the call            "init"    at line 123          *)
(*   "epoch"    at the head of line 126     "batch"   at the head of 127   *)
(*   "print"    at line 135                 "epochEnd" at line 141         *)
(*   "val"      at the head of line 144     "summary" at line 155          *)
(*   "done"     returned                    "raised"  left by an exception *)

Raise(e) ==
    /\ pc' = "raised"
    /\ err' = e

(* Lines 101-122: the entry checks and the batching.  No session call is   *)
(* made here.  A call may start when no call is running.                   *)
TrainEnter(Inputs, maxCalls) ==
    /\ pc \in {"idle", "done", "raised"}
    /\ calls < maxCalls
    /\ \E a \in Inputs :
        /\ args' = a
        /\ calls' = calls + 1
        /\ entryParams' = params
        /\ trace' = <<>>
        /\ epoch' = 0 /\ i' = 0 /\ j' = 0
        /\ feed_dict' = NoFeed
        /\ IF TrainPrecondition(a).kind # None
           THEN /\ Raise(TrainPrecondition(a))
                /\ x_train_batches' = <<>> /\ y_train_batches' = <<>>
                /\ x_val_batches' = <<>> /\ y_val_batches' = <<>>
           ELSE LET tp == Partition(PyLen(a.x_train), PyLen(a.y_train), a.batchSize)
                    vp == Partition(PyLen(a.x_val), PyLen(a.y_val), a.batchSize)
                IN  IF tp.status # "ok" \/ vp.status # "ok"
                    THEN /\ Raise(ValueError(<<"number sections must be larger than 0.">>))
                         /\ x_train_batches' = <<>> /\ y_train_batches' = <<>>
                         /\ x_val_batches' = <<>> /\ y_val_batches' = <<>>
                    ELSE /\ pc' = "init"
                         /\ err' = NoError
                         /\ x_train_batches' = tp.xb /\ y_train_batches' = tp.yb
                         /\ x_val_batches' = vp.xb /\ y_val_batches' = vp.yb
    /\ UNCHANGED <<params, splitVars, ctorVars>>

(* Lines 123-125: sess.run(tf.global_variables_initializer()) unless noInit. *)
InitVars ==
    /\ pc = "init"
    /\ IF ShouldInit(args)
       THEN \E ok \in BOOLEAN :
              IF ok
              THEN /\ trace' = Append(trace, Event("init", None, -1, -1, NoFeed))
                   /\ params' = 0
                   /\ pc' = "epoch"
                   /\ err' = err
              ELSE /\ Raise(EngineError("init"))
                   /\ UNCHANGED <<trace, params>>
       ELSE /\ pc' = "epoch"
            /\ UNCHANGED <<trace, params, err>>
    /\ UNCHANGED <<args, epoch, i, j, x_train_batches, y_train_batches,
                   x_val_batches, y_val_batches, feed_dict, entryParams, calls,
                   splitVars, ctorVars>>

(* Line 126: for epoch in range(totalEpochs). *)
EpochHead ==
    /\ pc = "epoch"
    /\ IF epoch < args.totalEpochs
       THEN pc' = "batch" /\ i' = 0
       ELSE pc' = "done" /\ i' = i
    /\ UNCHANGED <<args, err, epoch, j, x_train_batches, y_train_batches,
                   x_val_batches, y_val_batches, feed_dict, trace, params,
                   entryParams, calls, splitVars, ctorVars>>

(* Lines 127-134: the next training batch is bound to X, Y and one         *)
(* optimizer step is run on it.                                            *)
TrainStep ==
    /\ pc = "batch"
    /\ IF i < Len(x_train_batches)
       THEN /\ feed_dict' = [X |-> x_train_batches[i + 1], Y |-> y_train_batches[i + 1]]
            /\ \E ok \in BOOLEAN :
                 IF ok
                 THEN /\ trace' = Append(trace, Event("trainStep", None, epoch, i, feed_dict'))
                      /\ params' = params + 1
                      /\ pc' = "print"
                      /\ err' = err
                 ELSE /\ Raise(EngineError("trainStep"))
                      /\ UNCHANGED <<trace, params>>
       ELSE /\ pc' = "epochEnd"
            /\ UNCHANGED <<feed_dict, trace, params, err>>
    /\ UNCHANGED <<args, epoch, i, j, x_train_batches, y_train_batches,
                   x_val_batches, y_val_batches, entryParams, calls,
                   splitVars, ctorVars>>

(* Lines 135-140: i % printStep raises when printStep is 0; when the result *)
(* is 0, loss and accuracy are evaluated on the batch just used and a progress   *)
(* line is printed.  Then the batch loop advances.                         *)
Progress ==
    /\ pc = "print"
    /\ IF args.printStep = 0
       THEN /\ Raise(ZeroDivisionError)
            /\ UNCHANGED <<trace, i>>
       ELSE IF ShouldPrint(i, args.printStep)
       THEN \E ok \in BOOLEAN :
              IF ok
              THEN /\ trace' = trace \o
                        << Event("evalTrain", None, epoch, i, feed_dict),
                           Event("progress", ProgressSink(args), epoch, i, NoFeed) >>
                   /\ i' = i + 1
                   /\ pc' = "batch"
                   /\ err' = err
              ELSE /\ Raise(EngineError("eval"))
                   /\ UNCHANGED <<trace, i>>
       ELSE /\ i' = i + 1
            /\ pc' = "batch"
            /\ UNCHANGED <<trace, err>>
    /\ UNCHANGED <<args, epoch, j, x_train_batches, y_train_batches,
                   x_val_batches, y_val_batches, feed_dict, params, entryParams,
                   calls, splitVars, ctorVars>>

(* Lines 141-143: after the batch loop of an epoch. *)
EpochEnd ==
    /\ pc = "epochEnd"
    /\ IF ShouldValidate(epoch)
       THEN pc' = "val" /\ j' = 0 /\ epoch' = epoch
       ELSE pc' = "epoch" /\ j' = j /\ epoch' = epoch + 1
    /\ UNCHANGED <<args, err, i, x_train_batches, y_train_batches,
                   x_val_batches, y_val_batches, feed_dict, trace, params,
                   entryParams, calls, splitVars, ctorVars>>

(* Lines 144-154: accuracy and loss are evaluated on the next validation   *)
(* batch.                                                                  *)
ValStep ==
    /\ pc = "val"
    /\ IF j < Len(x_val_batches)
       THEN /\ feed_dict' = [X |-> x_val_batches[j + 1], Y |-> y_val_batches[j + 1]]
            /\ \E ok \in BOOLEAN :
                 IF ok
                 THEN /\ trace' = Append(trace, Event("evalVal", None, epoch, j, feed_dict'))
                      /\ j' = j + 1
                      /\ pc' = pc
                      /\ err' = err
                 ELSE /\ Raise(EngineError("eval"))
                      /\ UNCHANGED <<trace, j>>
       ELSE /\ pc' = "summary"
            /\ UNCHANGED <<feed_dict, trace, j, err>>
    /\ UNCHANGED <<args, epoch, i, x_train_batches, y_train_batches,
                   x_val_batches, y_val_batches, params, entryParams, calls,
                   splitVars, ctorVars>>

(* Lines 155-157: the means over len(y_val_batches) and the summary line;  *)
(* then the epoch loop advances.                                           *)
Summary ==
    /\ pc = "summary"
    /\ IF Len(y_val_batches) = 0
       THEN /\ Raise(ZeroDivisionError)
            /\ UNCHANGED <<trace, epoch>>
       ELSE /\ trace' = Append(trace, Event("summary", SummarySink(args), epoch, -1, NoFeed))
            /\ epoch' = epoch + 1
            /\ pc' = "epoch"
            /\ err' = err
    /\ UNCHANGED <<args, i, j, x_train_batches, y_train_batches,
                   x_val_batches, y_val_batches, feed_dict, params, entryParams,
                   calls, splitVars, ctorVars>>

----------------------------------------------------------------------------
(* Specifications.                                                         *)

SplitIdle ==
    /\ splitArgs = [nx |-> 0, ny |-> 0, batchSize |-> 1]
    /\ splitRes = NoSplit

CtorIdle ==
    /\ ctorArgs = [sW |-> 0, sB |-> 0, sZ |-> 0, X |-> <<-1, d>>, Y |-> <<-1, L>>,
                   lossType |-> "l2"]
    /\ cpc = "idle"
    /\ cerr = NoError
    /\ validInit = FALSE
    /\ graph = <<>>

TrainIdle ==
    /\ args = NoArgs
    /\ pc = "idle"
    /\ err = NoError
    /\ epoch = 0 /\ i = 0 /\ j = 0
    /\ x_train_batches = <<>> /\ y_train_batches = <<>>
    /\ x_val_batches = <<>> /\ y_val_batches = <<>>
    /\ feed_dict = NoFeed
    /\ trace = <<>>
    /\ params = 0
    /\ entryParams = 0
    /\ calls = 0

(* Batching of one (x, y) pair: every row count of each array and every    *)
(* admissible batch size.                                                  *)
SplitInit ==
    /\ splitArgs \in [nx : 0..MaxRows, ny : 0..MaxRows, batchSize : 1..MaxBatch]
    /\ splitRes = NoSplit
    /\ CtorIdle
    /\ TrainIdle

SplitStep ==
    /\ splitRes.status = "pending"
    /\ splitRes' = Partition(splitArgs.nx, splitArgs.ny, splitArgs.batchSize)
    /\ UNCHANGED <<splitArgs, ctorVars, trainVars>>

SplitNext == SplitStep

SplitSpec == SplitInit /\ [][SplitNext]_vars

(* Construction of a trainer on every combination of arguments.            *)
CtorInit ==
    /\ ctorArgs \in [sW : SparsityValues, sB : SparsityValues, sZ : SparsityValues,
                     X : PlaceholderShapes, Y : PlaceholderShapes,
                     lossType : LossTypes]
    /\ cpc = "new"
    /\ cerr = NoError
    /\ validInit = FALSE
    /\ graph = <<>>
    /\ SplitIdle
    /\ TrainIdle

CtorNext ==
    \/ CtorValidate
    \/ CtorProtoNNOut
    \/ CtorLossGraph
    \/ CtorTrainGraph
    \/ CtorAccuracy

CtorSpec == CtorInit /\ [][CtorNext]_vars

(* One call of train on a session.                                         *)
Init ==
    /\ SplitIdle
    /\ CtorIdle
    /\ TrainIdle

Next ==
    \/ TrainEnter(LoopInputs \cup PreInputs, 1)
    \/ InitVars
    \/ EpochHead
    \/ TrainStep
    \/ Progress
    \/ EpochEnd
    \/ ValStep
    \/ Summary

Spec == Init /\ [][Next]_vars

(* Consecutive calls of train on the same session.                         *)
MaxCalls == 2
CallsMaxEpochs == 3
CallsMaxRows == 2

CallsInputs ==
    {[batchSize |-> b, totalEpochs |-> e, sess |-> "sess",
      x_train |-> <<nt, d>>, y_train |-> <<nt, L>>,
      x_val |-> <<1, d>>, y_val |-> <<1, L>>,
      noInit |-> ni, redirFile |-> None, printStep |-> 1] :
        b \in 1..MaxBatchSize, e \in 1..CallsMaxEpochs, nt \in 1..CallsMaxRows,
        ni \in BOOLEAN}

CallsNext ==
    \/ TrainEnter(CallsInputs, MaxCalls)
    \/ InitVars
    \/ EpochHead
    \/ TrainStep
    \/ Progress
    \/ EpochEnd
    \/ ValStep
    \/ Summary

CallsSpec == Init /\ [][CallsNext]_vars

----------------------------------------------------------------------------
(* Properties of the batching (SplitSpec).                                 *)

RECURSIVE Flatten(_)
Flatten(seqs) == IF seqs = <<>> THEN <<>> ELSE Head(seqs) \o Flatten(Tail(seqs))

Sizes(batches) == [s \in 1..Len(batches) |-> Len(batches[s])]

IsCeilDiv(k, n, b) == k * b >= n /\ (k - 1) * b < n

(* The arrays of the pair that have N = nx rows. *)
BatchesOfN ==
    {splitRes.xb} \cup (IF splitArgs.ny = splitArgs.nx THEN {splitRes.yb} ELSE {})

(* C1, as stated: an array of N >= 1 rows is partitioned into              *)
(* ceil(N/batchSize) contiguous chunks, every chunk except the last with   *)
(* exactly batchSize rows and the last with the remaining rows (N=10,      *)
(* batchSize=3: sizes [3,3,3,1]).                                          *)
C1_FullBatchesThenRemainder ==
    (splitRes.status = "ok" /\ splitArgs.nx >= 1) =>
        \A b \in BatchesOfN :
            /\ IsCeilDiv(Len(b), splitArgs.nx, splitArgs.batchSize)
            /\ \A s \in 1..(Len(b) - 1) : Len(b[s]) = splitArgs.batchSize
            /\ Len(b[Len(b)]) = splitArgs.nx - splitArgs.batchSize * (Len(b) - 1)

(* C1, amended: an array of N >= 1 rows is partitioned into                *)
(* ceil(N/batchSize) contiguous, non-empty chunks in row order whose sizes *)
(* differ by at most one, the larger chunks first, none larger than        *)
(* batchSize (N=10, batchSize=3: sizes [3,3,2,2]).                         *)
C1_NearEqualBatches ==
    (splitRes.status = "ok" /\ splitArgs.nx >= 1) =>
        \A b \in BatchesOfN :
            LET k == Len(b)
                n == splitArgs.nx
            IN  /\ IsCeilDiv(k, n, splitArgs.batchSize)
                /\ \A s \in 1..k :
                     /\ Len(b[s]) >= 1
                     /\ Len(b[s]) <= splitArgs.batchSize
                     /\ Len(b[s]) \in {n \div k, (n \div k) + 1}
                     /\ \A t \in 1..(Len(b[s]) - 1) : b[s][t + 1] = b[s][t] + 1
                /\ \A s \in 1..(k - 1) :
                     /\ Len(b[s]) >= Len(b[s + 1])
                     /\ b[s + 1][1] = b[s][Len(b[s])] + 1
                /\ b[1][1] = 1
                /\ b[k][Len(b[k])] = n
                /\ (n = 10 /\ splitArgs.batchSize = 3) => Sizes(b) = <<3, 3, 2, 2>>

C1_Witness ==
    /\ splitRes.status = "ok"
    /\ splitArgs.nx = 10 /\ splitArgs.batchSize = 3
    /\ Sizes(splitRes.xb) = <<3, 3, 2, 2>>

(* C2: for N >= 1 rows, the batches concatenated in batch order are the    *)
(* original rows in the original order, none duplicated or dropped, and    *)
(* when x and y have the same number of rows the i-th x batch and the i-th *)
(* y batch cover the same row indices.                                     *)
C2_BatchesCoverRowsInOrder ==
    (splitRes.status = "ok" /\ splitArgs.nx >= 1) =>
        /\ Flatten(splitRes.xb) = Rows(splitArgs.nx)
        /\ Flatten(splitRes.yb) = Rows(splitArgs.ny)
        /\ Len(splitRes.yb) = Len(splitRes.xb)
        /\ (splitArgs.ny = splitArgs.nx) =>
              \A s \in 1..Len(splitRes.xb) : splitRes.yb[s] = splitRes.xb[s]

C2_Witness ==
    /\ splitRes.status = "ok"
    /\ splitArgs.nx = 7 /\ splitArgs.ny = 7 /\ splitArgs.batchSize = 3
    /\ Len(splitRes.xb) = 3
    /\ splitRes.yb[3] = <<6, 7>>

----------------------------------------------------------------------------
(* Properties of the constructor (CtorSpec).                               *)

InUnitRange(s) == 0 <= s /\ s <= One
OffendingSparsities ==
    {p \in {"W:", "B:", "Z:"} :
        \/ p = "W:" /\ ~InUnitRange(ctorArgs.sW)
        \/ p = "B:" /\ ~InUnitRange(ctorArgs.sB)
        \/ p = "Z:" /\ ~InUnitRange(ctorArgs.sZ)}
IsSparsityError(e) == Len(e.msg) = 2 /\ e.msg[2] = SparcityMsg
YValid == Len(ctorArgs.Y) = 2 /\ ctorArgs.Y[2] = L
XValid == Len(ctorArgs.X) = 2 /\ ctorArgs.X[2] = d
NothingBuilt == cpc = "raised" /\ graph = <<>>

(* C8: a sparsity outside [0,1] for W, B or Z makes construction fail with *)
(* an error whose message names an offending parameter, with the model not *)
(* invoked and no loss, trainStep or accuracy handle created; values in    *)
(* [0,1], 0 and 1 included, raise no sparsity error.                       *)
C8_SparsityRangeChecked ==
    (cpc # "new") =>
        /\ (OffendingSparsities # {}) =>
              /\ NothingBuilt
              /\ cerr.kind = "AssertionError"
              /\ IsSparsityError(cerr)
              /\ cerr.msg[1] \in OffendingSparsities
        /\ (OffendingSparsities = {}) => ~IsSparsityError(cerr)

C8_Witness ==
    /\ cpc = "raised"
    /\ ctorArgs.sW = 0 /\ ctorArgs.sB = One + 1 /\ ctorArgs.sZ = One
    /\ cerr.msg[1] = "B:"

(* C9: a loss kind outside {l2, xentropy} makes construction fail before   *)
(* the model's prediction output, the loss graph or the optimizer step is  *)
(* built; the failure is the value error listing the accepted kinds when   *)
(* the sparsity and shape checks, which come first, pass.                  *)
C9_LossKindChecked ==
    (cpc # "new" /\ ctorArgs.lossType \notin {"l2", "xentropy"}) =>
        /\ NothingBuilt
        /\ (OffendingSparsities = {} /\ YValid /\ XValid) =>
              /\ cerr.kind = "ValueError"
              /\ cerr.msg = <<LossMsg>>

C9_Witness ==
    /\ cpc = "raised"
    /\ ctorArgs.lossType = "hinge"
    /\ cerr.kind = "ValueError"
    /\ graph = <<>>

(* C10: with valid sparsities, a Y that is not rank 2 or whose trailing    *)
(* dimension is not L makes construction fail with the shape error about   *)
(* Y, and (Y being valid) an X that is not rank 2 or whose trailing        *)
(* dimension is not d makes it fail with the shape error about X; in every *)
(* case of a bad X or Y construction fails and nothing is built.           *)
C10_PlaceholderShapesChecked ==
    (cpc # "new") =>
        /\ (OffendingSparsities = {} /\ ~YValid) =>
              cerr.kind = "AssertionError" /\ cerr.msg = <<YMsg>>
        /\ (OffendingSparsities = {} /\ YValid /\ ~XValid) =>
              cerr.kind = "AssertionError" /\ cerr.msg = <<XMsg>>
        /\ (~YValid \/ ~XValid) => NothingBuilt

C10_Witness ==
    /\ cpc = "raised"
    /\ ctorArgs.Y = <<-1, L>>
    /\ ctorArgs.X = <<-1, d, d>>
    /\ cerr.msg = <<XMsg>>

----------------------------------------------------------------------------
(* Properties of train (Spec, CallsSpec).                                  *)

Count(kind) == Len(SelectSeq(trace, LAMBDA e : e.ev = kind))
TrainFeed(b) == [X |-> x_train_batches[b + 1], Y |-> y_train_batches[b + 1]]
ValFeed(b) == [X |-> x_val_batches[b + 1], Y |-> y_val_batches[b + 1]]

(* The preconditions of train. *)
ViolatesPrecondition(a) ==
    \/ a.batchSize < 1
    \/ a.totalEpochs < 1
    \/ Len(a.x_train) # 2 \/ a.x_train[Len(a.x_train)] # d
    \/ Len(a.x_val) # 2 \/ a.x_val[Len(a.x_val)] # d
    \/ Len(a.y_train) # 2 \/ a.y_train[Len(a.y_train)] # L
    \/ Len(a.y_val) # 2 \/ a.y_val[Len(a.y_val)] # L
    \/ a.sess = None

(* C3: in a call that has run to completion with totalEpochs = E, there    *)
(* are exactly floor(E/3) validation summaries, the k-th after the epoch   *)
(* numbered 3k (1-indexed); each comes right after one evaluation of every *)
(* validation batch, in order, which follow the last training batch of     *)
(* that epoch; no validation evaluation happens anywhere else and no       *)
(* optimizer step falls inside a pass.                                     *)
C3_ValidationEveryThirdEpoch ==
    (pc = "done") =>
        LET sums == SelectSeq(trace, LAMBDA e : e.ev = "summary")
            nv == Len(x_val_batches)
            nb == Len(x_train_batches)
        IN  /\ Len(sums) = args.totalEpochs \div 3
            /\ \A k \in 1..Len(sums) : sums[k].epoch + 1 = 3 * k
            /\ Count("evalVal") = nv * Len(sums)
            /\ \A p \in 1..Len(trace) :
                 (trace[p].ev = "summary") =>
                    /\ p > nv + 1
                    /\ \A q \in 1..nv :
                         trace[p - nv + q - 1] =
                            Event("evalVal", None, trace[p].epoch, q - 1, ValFeed(q - 1))
                    /\ trace[p - nv - 1].ev \in {"trainStep", "progress"}
                    /\ trace[p - nv - 1].epoch = trace[p].epoch
                    /\ trace[p - nv - 1].batch = nb - 1
                    /\ \A q \in 1..Len(trace) :
                         (trace[q].ev = "trainStep") =>
                            (q < p - nv <=> trace[q].epoch <= trace[p].epoch)

C3_Witness ==
    /\ pc = "done"
    /\ args.totalEpochs = 7
    /\ Len(x_val_batches) = 2
    /\ Count("summary") = 2
    /\ Count("evalVal") = 4

(* C4, as stated: a call that passes its preconditions and meets no engine *)
(* failure ends normally, having executed exactly one optimizer step per   *)
(* training batch per epoch, in epoch order and ascending batch order.     *)
(* (Stated for calls whose arrays are not empty.)                          *)
C4_AllStepsThenTerminates ==
    (/\ pc \in {"done", "raised"}
     /\ ~ViolatesPrecondition(args)
     /\ PyLen(args.x_train) >= 1 /\ PyLen(args.x_val) >= 1
     /\ err.kind # "EngineError") =>
        LET steps == SelectSeq(trace, LAMBDA e : e.ev = "trainStep")
            nb == Len(x_train_batches)
        IN  /\ pc = "done"
            /\ Len(steps) = args.totalEpochs * nb
            /\ \A k \in 1..Len(steps) :
                 /\ steps[k].epoch = (k - 1) \div nb
                 /\ steps[k].batch = (k - 1) % nb
                 /\ steps[k].feed = TrainFeed(steps[k].batch)

Abs(n) == IF n < 0 THEN -n ELSE n
Divides(ps, b) == \E m \in 0..b : m * Abs(ps) = b

(* C5: with printStep # 0, the optimizer step on training batch i is       *)
(* followed, before anything else, by an evaluation of loss and accuracy   *)
(* on the same batch and a progress line if and only if i is a multiple of *)
(* printStep; progress lines go to redirFile (the default output when it   *)
(* is None) and validation summaries to the default output.                *)
C5_ProgressEveryPrintStep ==
    (pc # "idle" /\ args.printStep # 0) =>
        \A p \in 1..Len(trace) :
            /\ (trace[p].ev = "trainStep" /\ Divides(args.printStep, trace[p].batch)) =>
                  IF p = Len(trace)
                  THEN pc \in {"print", "raised"}
                  ELSE /\ p + 2 <= Len(trace)
                       /\ trace[p + 1] =
                            Event("evalTrain", None, trace[p].epoch, trace[p].batch,
                                  trace[p].feed)
                       /\ trace[p + 2] =
                            Event("progress",
                                  IF args.redirFile = None THEN "stdout" ELSE args.redirFile,
                                  trace[p].epoch, trace[p].batch, NoFeed)
            /\ (trace[p].ev = "trainStep" /\ ~Divides(args.printStep, trace[p].batch)) =>
                  (p < Len(trace) => trace[p + 1].ev \notin {"evalTrain", "progress"})
            /\ (trace[p].ev = "evalTrain") =>
                  (p > 1 /\ trace[p - 1].ev = "trainStep")
            /\ (trace[p].ev = "progress") =>
                  (p > 1 /\ trace[p - 1].ev = "evalTrain")
            /\ (trace[p].ev = "summary") => trace[p].sink = "stdout"

C5_Witness ==
    /\ pc = "done"
    /\ args.printStep = 2
    /\ args.redirFile = "log.txt"
    /\ Len(x_train_batches) = 3
    /\ Count("progress") = 2 * args.totalEpochs
    /\ Count("summary") >= 1

(* C6: a call past its entry checks with noInit unset has run the          *)
(* initialization exactly once, as its first session call, so that the     *)
(* parameters are those of the initialization plus this call's optimizer   *)
(* steps; a call with noInit set never runs it, so that its steps apply to *)
(* the parameters the previous call left in the session.                   *)
C6_InitOnceUnlessNoInit ==
    (pc \notin {"idle", "init"} /\ ~(pc = "raised" /\ trace = <<>>)) =>
        IF args.noInit
        THEN /\ Count("init") = 0
             /\ params = entryParams + Count("trainStep")
        ELSE /\ Count("init") = 1
             /\ trace[1].ev = "init"
             /\ params = Count("trainStep")

C6_Witness ==
    /\ calls = 2
    /\ args.noInit
    /\ entryParams > 0
    /\ pc = "done"
    /\ params = entryParams + args.totalEpochs * Len(x_train_batches)

(* C7: a call that violates a precondition fails with an error and makes   *)
(* no session call and prints nothing: no initialization, no optimizer     *)
(* step, no evaluation, no output line.                                    *)
C7_PreconditionsFailFirst ==
    (pc # "idle" /\ ViolatesPrecondition(args)) =>
        /\ pc = "raised"
        /\ err.kind \in {"AssertionError", "ValueError"}
        /\ trace = <<>>
        /\ feed_dict = NoFeed
        /\ params = entryParams

C7_Witness ==
    /\ pc = "raised"
    /\ args.sess = None
    /\ args.batchSize = 1 /\ args.totalEpochs = 1
    /\ args.x_train = <<1, d>> /\ args.x_val = <<1, d>>
    /\ args.y_train = <<1, L>> /\ args.y_val = <<1, L>>
    /\ err.kind = "ValueError"

====
